---- MODULE Spec2Model ----
(***************************************************************************)
(* Unified storage: the search index server (indexServer), its watch-to-   *)
(* index bridge (indexWatchServer) and the SQL constructor that wires them *)
(* (sql.NewResourceServer).                                                *)
(*                                                                         *)
(* Strings that the code splits are sequences of atoms: an atom is either  *)
(* the separator "/" or a slash-free piece of text.                        *)
(***************************************************************************)
EXTENDS Integers, Sequences, FiniteSets, TLC

\* ------------------------------------------------------------- bounds
\* Number of committed backend writes (resource versions 1..MaxVersion).
MaxVersion == 2
\* Number of index instances ever created (the constructor's and re-inits).
MaxGen == 2
\* Number of administrative keyed Index requests.
MaxFeed == 1
\* Length, in atoms, of the apiVersion strings getGroup is called with.
MaxApiLen == 4

\* ------------------------------------------------------------- values
Nil == "nil"

\* The nil *ResourceKey, *ResourceWrapper, *Resource and *Index.
NilKey == [Group |-> <<>>, Resource |-> "", Namespace |-> "", Name |-> ""]

NilValue == [ResourceVersion |-> 0, Value |-> [wellFormed |-> FALSE, raw |-> Nil]]

NilResource == [ApiVersion |-> <<>>, Kind |-> "", Metadata |-> [Namespace |-> "", Name |-> ""]]

NilIndex == [gen |-> 0, s |-> Nil, phase |-> "nil", docs |-> {}]

\* An IndexRequest with neither key nor value.
EmptyRequest == [Key |-> NilKey, Value |-> NilValue]

\* Object names, in the key order Backend.List produces.
NameOrder == <<"a", "b">>

Names == {NameOrder[i] : i \in 1..Len(NameOrder)}

\* Objects that some writer stores with a payload that does not decode.
Corruptible == {"b"}

\* Group of the watched scope (WatchRequest.Options.Key.Group).
PlaylistGroup == <<"playlist.grafana.app">>

\* Resource of the watched scope (WatchRequest.Options.Key.Resource).
PlaylistResource == "playlists"

\* apiVersion and kind carried by the payload of a playlist object.
PlaylistApiVersion == <<"playlist.grafana.app", "/", "v0alpha1">>

PlaylistKind == "Playlist"

\* The WatchRequest built by indexServer.Init.
WatchRequestOf == [Options |-> [Key |-> [Group |-> PlaylistGroup, Resource |-> PlaylistResource]]]

\* ResourceKey under which the Backend stores the object called n.
BackendKey(n) == [Group |-> PlaylistGroup, Resource |-> PlaylistResource, Namespace |-> "default", Name |-> n]

\* Serialized payload of version v of object n; wellFormed = FALSE is a
\* payload that does not decode.
MkValue(n, v, wellFormed) ==
    [wellFormed |-> wellFormed,
     raw |-> [apiVersion |-> PlaylistApiVersion, kind |-> PlaylistKind,
              namespace |-> "default", name |-> n, body |-> v]]

\* ------------------------------------------------------------- pure code
\* strings.Split on a one-atom separator.
RECURSIVE Split(_, _)
Split(s, sep) ==
    IF \A i \in 1..Len(s) : s[i] # sep
    THEN <<s>>
    ELSE LET i == CHOOSE j \in 1..Len(s) : s[j] = sep /\ \A k \in 1..(j-1) : s[k] # sep
         IN  <<SubSeq(s, 1, i - 1)>> \o Split(SubSeq(s, i + 1, Len(s)), sep)

\* getGroup returning the last segment instead of the first.
getGroupLast(r) ==
    LET v == Split(r.ApiVersion, "/")
    IN  IF Len(v) > 0 THEN v[Len(v)] ELSE <<>>

getGroup(r) ==
    LET v == Split(r.ApiVersion, "/")
    IN  IF Len(v) > 0 THEN v[1] ELSE <<>>

\* Decoding of a payload into a Resource.
getResource(value) ==
    IF value.wellFormed
    THEN [err |-> Nil,
          r |-> [ApiVersion |-> value.raw.apiVersion, Kind |-> value.raw.kind,
                 Metadata |-> [Namespace |-> value.raw.namespace, Name |-> value.raw.name]]]
    ELSE [err |-> "DecodeError", r |-> NilResource]

\* A fresh index instance, holding the server reference it was given.
NewIndex(srv, g) == [gen |-> g, s |-> srv, phase |-> "Uninitialized", docs |-> {}]

\* Index.Index: upsert of one document; a version not newer than the stored
\* one is discarded. fail = the index reports an error for this document.
IndexIndex(idx, data, fail) ==
    IF fail
    THEN [index |-> idx, err |-> "IndexError"]
    ELSE LET old == {d \in idx.docs : d.Key = data.Key}
         IN  IF \E d \in old : d.Version >= data.Value.ResourceVersion
             THEN [index |-> idx, err |-> Nil]
             ELSE [index |-> [idx EXCEPT !.docs = (@ \ old) \cup
                                  {[Key |-> data.Key,
                                    Version |-> data.Value.ResourceVersion,
                                    Value |-> data.Value.Value]}],
                   err |-> Nil]

\* indexServer.Search: the response and error it returns.
Search(s, req) == [res |-> [Items |-> {}], err |-> Nil]

\* Index with the branch on req.Key inverted: a keyed request re-creates the index.
IndexInverted(s, req, g, fail) ==
    IF req.Key # NilKey
    THEN [is |-> [s EXCEPT !.index = NewIndex(s.s, g)], init |-> TRUE, panic |-> FALSE, err |-> Nil]
    ELSE [is |-> s, init |-> FALSE, panic |-> s.index = NilIndex, err |-> Nil]

\* Index that creates a new index on every request before feeding it.
IndexAlwaysNew(s, req, g, fail) ==
    IF req.Key = NilKey
    THEN [is |-> [s EXCEPT !.index = NewIndex(s.s, g)], init |-> TRUE, panic |-> FALSE, err |-> Nil]
    ELSE IF s.index = NilIndex
         THEN [is |-> s, init |-> FALSE, panic |-> TRUE, err |-> Nil]
         ELSE LET r == IndexIndex(NewIndex(s.s, s.index.gen), [Key |-> req.Key, Value |-> req.Value], fail)
              IN  [is |-> [s EXCEPT !.index = [r.index EXCEPT !.phase = s.index.phase]], init |-> FALSE,
                   panic |-> FALSE, err |-> r.err]

\* indexServer.Index on the index server struct s. init = the request took
\* the absent-key branch, so Index.Init now runs on the new s.index; panic =
\* nil dereference of s.index.
Index(s, req, g, fail) ==
    IF req.Key = NilKey
    THEN [is |-> [s EXCEPT !.index = NewIndex(s.s, g)], init |-> TRUE, panic |-> FALSE, err |-> Nil]
    ELSE IF s.index = NilIndex
         THEN [is |-> s, init |-> FALSE, panic |-> TRUE, err |-> Nil]
         ELSE LET r == IndexIndex(s.index, [Key |-> req.Key, Value |-> req.Value], fail)
              IN  [is |-> [s EXCEPT !.index = r.index], init |-> FALSE, panic |-> FALSE, err |-> r.err]

\* Send that hands the request over and returns before the index has applied it.
SendDeferred(s, we, g, fail) ==
    LET d == getResource(we.Resource.Value)
    IN  IF d.err # Nil
        THEN [is |-> s, req |-> EmptyRequest, panic |-> FALSE, err |-> d.err]
        ELSE LET key == [Group |-> getGroup(d.r), Resource |-> d.r.Kind,
                         Namespace |-> d.r.Metadata.Namespace, Name |-> d.r.Metadata.Name]
                 value == [ResourceVersion |-> we.Resource.Version, Value |-> we.Resource.Value]
             IN  [is |-> s, req |-> [Key |-> key, Value |-> value], panic |-> FALSE, err |-> Nil]

\* indexWatchServer.Send for the index server struct s: the request it
\* issues (req), the struct afterwards (is) and the error it returns.
Send(s, we, g, fail) ==
    LET d == getResource(we.Resource.Value)
    IN  IF d.err # Nil
        THEN [is |-> s, req |-> EmptyRequest, panic |-> FALSE, err |-> d.err]
        ELSE LET key == [Group |-> getGroup(d.r), Resource |-> d.r.Kind,
                         Namespace |-> d.r.Metadata.Namespace, Name |-> d.r.Metadata.Name]
                 value == [ResourceVersion |-> we.Resource.Version, Value |-> we.Resource.Value]
                 req == [Key |-> key, Value |-> value]
                 res == Index(s, req, g, fail)
             IN  [is |-> res.is, req |-> req, panic |-> res.panic, err |-> res.err]

\* ------------------------------------------------------------- state
VARIABLES
    flag,        \* FlagUnifiedStorageSearch as the constructor reads it
    ctor,        \* sql.NewResourceServer: position, returned server and error
    is,          \* the indexServer struct: s, index, ws
    ngen,        \* number of index instances created so far
    watch,       \* the goroutine started by indexServer.Init, its err variable and,
                 \* while Send runs, the instance (gen) that Send read from is.index
    history,     \* the Backend's committed rows, oldest first
    initCall,    \* the absent-key Index request in progress, if any
    crashed,     \* the process died of a nil dereference
    fed,         \* the (ResourceKey, version) pairs fed to the current is.index
    ninit,       \* absent-key Index requests issued (constructor and administrative)
    nfeed,       \* administrative keyed requests issued
    gap,         \* a row was committed after the current index listed the Backend
                 \* and before any subscription was registered
    getGroupCall \* a call of getGroup on its own: argument r, position, returned string

vars == <<flag, ctor, is, ngen, watch, history, initCall, crashed, fed, ninit, nfeed, gap, getGroupCall>>

\* No call of getGroup on its own is under way.
NoGetGroup == [r |-> NilResource, pc |-> "none", ret |-> <<>>]

\* watch.idx when no Send is between its read of is.index and the call on it.
NoSend == -1

NoCall == [caller |-> "none", pc |-> "none", todo |-> <<>>, err |-> Nil]

Init ==
    /\ flag \in BOOLEAN
    /\ ctor = [pc |-> "ProvideResourceDB", server |-> Nil, err |-> Nil]
    /\ is = [s |-> Nil, index |-> NilIndex, ws |-> Nil]
    /\ ngen = 0
    /\ watch = [state |-> "none", from |-> 0, cursor |-> 0, err |-> Nil, idx |-> NoSend]
    /\ history = <<>>
    /\ initCall = NoCall
    /\ crashed = FALSE
    /\ fed = {}
    /\ ninit = 0
    /\ nfeed = 0
    /\ gap = FALSE
    /\ getGroupCall = NoGetGroup

\* ------------------------------------------------------------- helpers
\* The WatchEvent the Backend emits for a committed row.
EventOf(row) == [Type |-> row.Type, Resource |-> [Version |-> row.Version, Value |-> row.Value]]

\* Rows of object n, and whether n currently exists in the Backend.
RowsOf(n) == {i \in 1..Len(history) : history[i].Key = BackendKey(n)}

LatestOf(n) == history[CHOOSE i \in RowsOf(n) : \A j \in RowsOf(n) : j <= i]

Live(n) == RowsOf(n) # {} /\ LatestOf(n).Type # "DELETED"

\* Backend.List over the watched scope: the latest version of every live
\* object, ordered by key.
List ==
    LET live == SelectSeq(NameOrder, Live)
    IN  [i \in 1..Len(live) |-> [Key |-> LatestOf(live[i]).Key, Version |-> LatestOf(live[i]).Version, Value |-> LatestOf(live[i]).Value]]

\* fed after a document of this key and version was accepted by the index.
FedAfter(f, key, version) == f \cup {[Key |-> key, Version |-> version]}

Running == ~crashed

\* The current index has listed the Backend: its scan reads that snapshot.
Listed == is.index.phase = "Ready" \/ initCall.pc = "Scan"

\* ------------------------------------------------------------- Backend
\* A committed write, by this server or another writer of the same database:
\* creation, update or deletion of object n as version Len(history)+1. A
\* deletion carries the payload the object had.
Write(n, wellFormed, del) ==
    /\ Running
    /\ ctor.pc \notin {"ProvideResourceDB", "NewBackend"}
    /\ Len(history) < MaxVersion
    /\ del => (Live(n) /\ wellFormed)
    /\ ~wellFormed => n \in Corruptible
    /\ LET v == Len(history) + 1
           type == IF del THEN "DELETED" ELSE IF Live(n) THEN "MODIFIED" ELSE "ADDED"
           value == IF del THEN LatestOf(n).Value ELSE MkValue(n, v, wellFormed)
       IN  history' = Append(history, [Key |-> BackendKey(n), Type |-> type, Version |-> v, Value |-> value])
    /\ gap' = (gap \/ (Listed /\ watch.state \in {"none", "spawned"}))
    /\ UNCHANGED <<getGroupCall, flag, ctor, is, ngen, watch, initCall, crashed, fed, ninit, nfeed>>

\* ------------------------------------------------------------- sql.NewResourceServer
Returned(server, err) == [pc |-> "Returned", server |-> server, err |-> err]

\* dbimpl.ProvideResourceDB and its error return.
ProvideResourceDB(fail) ==
    /\ Running
    /\ ctor.pc = "ProvideResourceDB"
    /\ ctor' = IF fail THEN Returned(Nil, "DBError") ELSE [ctor EXCEPT !.pc = "NewBackend"]
    /\ UNCHANGED <<getGroupCall, flag, is, ngen, watch, history, initCall, crashed, fed, ninit, nfeed, gap>>

\* NewBackend and its error return.
NewBackend(fail) ==
    /\ Running
    /\ ctor.pc = "NewBackend"
    /\ ctor' = IF fail THEN Returned(Nil, "BackendError") ELSE [ctor EXCEPT !.pc = "IsEnabledGlobally"]
    /\ UNCHANGED <<getGroupCall, flag, is, ngen, watch, history, initCall, crashed, fed, ninit, nfeed, gap>>

\* A constructor that wires and initializes the index whatever the flag says.
NewResourceServerWired(fail) ==
    /\ Running
    /\ ctor.pc = "IsEnabledGlobally"
    /\ ~flag
    /\ ctor' = IF fail THEN Returned(Nil, "ServerError") ELSE [ctor EXCEPT !.pc = "IndexerInit"]
    /\ UNCHANGED <<getGroupCall, flag, is, ngen, watch, history, initCall, crashed, fed, ninit, nfeed, gap>>

\* Plain mode: the flag is off and resource.NewResourceServer's result is returned.
NewResourceServerPlain(fail) ==
    /\ Running
    /\ ctor.pc = "IsEnabledGlobally"
    /\ ~flag
    /\ ctor' = IF fail THEN Returned(Nil, "ServerError") ELSE Returned("server", Nil)
    /\ UNCHANGED <<getGroupCall, flag, is, ngen, watch, history, initCall, crashed, fed, ninit, nfeed, gap>>

\* Indexed mode: opts.Index is set and resource.NewResourceServer builds the
\* server; on success it goes on to wire the index server (indexServer.Init).
NewResourceServerIndexed(fail) ==
    /\ Running
    /\ ctor.pc = "IsEnabledGlobally"
    /\ flag
    /\ ctor' = IF fail THEN Returned(Nil, "ServerError") ELSE [ctor EXCEPT !.pc = "IndexerInit"]
    /\ UNCHANGED <<getGroupCall, flag, is, ngen, watch, history, initCall, crashed, fed, ninit, nfeed, gap>>

\* An Init that creates the sink and the goroutine but does not store rs in is.s.
InitWireNoServer ==
    /\ Running
    /\ ctor.pc = "IndexerInit"
    /\ is' = [is EXCEPT !.ws = "indexWatchServer"]
    /\ watch' = [state |-> "spawned", from |-> 0, cursor |-> 0, err |-> Nil, idx |-> NoSend]
    /\ ctor' = [ctor EXCEPT !.pc = "InitReturn"]
    /\ UNCHANGED <<getGroupCall, flag, ngen, history, initCall, crashed, fed, ninit, nfeed, gap>>

\* indexServer.Init up to the go statement: is.s and is.ws are set and the
\* goroutine that will call rs.Watch exists.
InitWire ==
    /\ Running
    /\ ctor.pc = "IndexerInit"
    /\ is' = [is EXCEPT !.s = "server", !.ws = "indexWatchServer"]
    /\ watch' = [state |-> "spawned", from |-> 0, cursor |-> 0, err |-> Nil, idx |-> NoSend]
    /\ ctor' = [ctor EXCEPT !.pc = "InitReturn"]
    /\ UNCHANGED <<getGroupCall, flag, ngen, history, initCall, crashed, fed, ninit, nfeed, gap>>

\* indexServer.Init's "return err": err is the variable the goroutine writes,
\* read without synchronisation. resource.NewResourceServer fails on an
\* error from Init.
InitReturn ==
    /\ Running
    /\ ctor.pc = "InitReturn"
    /\ ctor' = IF watch.err # Nil THEN Returned(Nil, watch.err) ELSE [ctor EXCEPT !.pc = "ServerIndex"]
    /\ UNCHANGED <<getGroupCall, flag, is, ngen, watch, history, initCall, crashed, fed, ninit, nfeed, gap>>

\* A return that drops the error of server.Index.
ReturnServerNil(server, err) == Returned(server, Nil)

\* The value sql.NewResourceServer returns after server.Index: "return server, err".
ReturnServerErr(server, err) == Returned(server, err)

\* server.Index(ctx, &IndexRequest{}): the absent-key request of the constructor.
ServerIndex ==
    /\ Running
    /\ ctor.pc = "ServerIndex"
    /\ initCall.caller = "none"
    /\ LET r == Index(is, EmptyRequest, ngen + 1, FALSE)
       IN  /\ is' = r.is
           /\ initCall' = IF r.init THEN [caller |-> "ctor", pc |-> "Init", todo |-> <<>>, err |-> Nil]
                                    ELSE [caller |-> "ctor", pc |-> "Return", todo |-> <<>>, err |-> r.err]
           /\ ngen' = IF r.init THEN ngen + 1 ELSE ngen
           /\ fed' = IF r.init THEN {} ELSE fed
           /\ gap' = IF r.init THEN FALSE ELSE gap
           /\ crashed' = r.panic
    /\ ninit' = ninit + 1
    /\ ctor' = [ctor EXCEPT !.pc = "WaitIndex"]
    /\ UNCHANGED <<getGroupCall, flag, watch, history, nfeed>>

\* The constructor's return once its Index request has returned.
CtorReturn ==
    /\ Running
    /\ ctor.pc = "WaitIndex"
    /\ initCall.caller = "ctor"
    /\ initCall.pc = "Return"
    /\ ctor' = ReturnServerErr("server", initCall.err)
    /\ initCall' = NoCall
    /\ UNCHANGED <<getGroupCall, flag, is, ngen, watch, history, crashed, fed, ninit, nfeed, gap>>

\* ------------------------------------------------------------- Index.Init
\* Index.Init begins: the index enters Building and lists the Backend.
IndexInitList(fail) ==
    /\ Running
    /\ initCall.pc = "Init"
    /\ is' = [is EXCEPT !.index.phase = "Building"]
    /\ initCall' = IF fail THEN [initCall EXCEPT !.pc = "Return", !.err = "StorageError"]
                           ELSE [initCall EXCEPT !.pc = "Scan", !.todo = List]
    /\ UNCHANGED <<getGroupCall, flag, ctor, ngen, watch, history, crashed, fed, ninit, nfeed, gap>>

\* The scan ingests the next listed object; one that does not decode is skipped.
IndexInitIngest ==
    /\ Running
    /\ initCall.pc = "Scan"
    /\ initCall.todo # <<>>
    /\ initCall' = [initCall EXCEPT !.todo = Tail(@)]
    /\ LET item == Head(initCall.todo)
           d == getResource(item.Value)
           r == IndexIndex(is.index, [Key |-> item.Key, Value |-> [ResourceVersion |-> item.Version, Value |-> item.Value]], FALSE)
       IN  /\ is' = IF d.err # Nil THEN is ELSE [is EXCEPT !.index = r.index]
           /\ fed' = IF d.err # Nil THEN fed ELSE FedAfter(fed, item.Key, item.Version)
    /\ UNCHANGED <<getGroupCall, flag, ctor, ngen, watch, history, crashed, ninit, nfeed, gap>>

\* The scan is complete: the index is Ready and Index.Init returns nil.
IndexInitReady ==
    /\ Running
    /\ initCall.pc = "Scan"
    /\ initCall.todo = <<>>
    /\ is' = [is EXCEPT !.index.phase = "Ready"]
    /\ initCall' = [initCall EXCEPT !.pc = "Return", !.err = Nil]
    /\ UNCHANGED <<getGroupCall, flag, ctor, ngen, watch, history, crashed, fed, ninit, nfeed, gap>>

\* ------------------------------------------------------------- the watch goroutine
\* The goroutine after rs.Watch returned e: err = e, nothing is delivered any more.
Failed(e) == [state |-> "failed", from |-> 0, cursor |-> 0, err |-> e, idx |-> NoSend]

\* rs.Watch registers the subscription: events from now on are delivered.
WatchSubscribe ==
    /\ Running
    /\ watch.state = "spawned"
    /\ watch' = [watch EXCEPT !.state = "subscribed", !.from = Len(history), !.cursor = Len(history)]
    /\ UNCHANGED <<getGroupCall, flag, ctor, is, ngen, history, initCall, crashed, fed, ninit, nfeed, gap>>

\* rs.Watch hands the next event to Send; Send has decoded the payload and
\* indexServer.Index reads the pointer is.index on which it will call Index.
SendLoad ==
    /\ Running
    /\ watch.state = "subscribed"
    /\ watch.cursor < Len(history)
    /\ watch.idx = NoSend
    /\ getResource(EventOf(history[watch.cursor + 1]).Resource.Value).err = Nil
    /\ watch' = [watch EXCEPT !.idx = is.index.gen]
    /\ UNCHANGED <<getGroupCall, flag, ctor, is, ngen, history, initCall, crashed, fed, ninit, nfeed, gap>>

\* The instance Send read from is.index: the current one, nil, or one that an
\* absent-key request has replaced since (its documents are out of reach).
Loaded ==
    IF watch.idx = is.index.gen THEN is.index
    ELSE IF watch.idx = 0 THEN NilIndex
    ELSE [gen |-> watch.idx, s |-> is.s, phase |-> "Replaced", docs |-> {}]

\* Send completes for the next event: the call on the instance it read is
\* made and Send returns. A sink that returns an error is unregistered and
\* rs.Watch returns that error, which the goroutine stores in err.
WatchDeliver(fail) ==
    /\ Running
    /\ watch.state = "subscribed"
    /\ watch.cursor < Len(history)
    /\ LET we == EventOf(history[watch.cursor + 1])
           current == watch.idx = is.index.gen
           r == Send([is EXCEPT !.index = Loaded], we, ngen, fail)
       IN  /\ watch.idx # NoSend \/ getResource(we.Resource.Value).err # Nil
           /\ crashed' = r.panic
           /\ is' = IF current THEN r.is ELSE is
           /\ watch' = IF r.panic THEN watch
                       ELSE IF r.err # Nil THEN Failed(r.err)
                       ELSE [watch EXCEPT !.cursor = @ + 1, !.idx = NoSend]
           /\ fed' = IF r.req = EmptyRequest \/ r.panic \/ r.err # Nil \/ ~current THEN fed
                     ELSE FedAfter(fed, r.req.Key, r.req.Value.ResourceVersion)
    /\ UNCHANGED <<getGroupCall, flag, ctor, ngen, history, initCall, ninit, nfeed, gap>>

\* The watch stream itself fails (storage or transport): rs.Watch returns an
\* error, which the goroutine stores in err.
WatchFail ==
    /\ Running
    /\ watch.state \in {"spawned", "subscribed"}
    /\ watch.idx = NoSend
    /\ watch' = Failed("StreamError")
    /\ UNCHANGED <<getGroupCall, flag, ctor, is, ngen, history, initCall, crashed, fed, ninit, nfeed, gap>>

\* ------------------------------------------------------------- callers of the returned server
Serving == ctor.pc = "Returned" /\ ctor.err = Nil /\ flag

\* ResourceKeys an administrative request may name.
FeedKeys == {[Group |-> PlaylistGroup, Resource |-> rs, Namespace |-> "default", Name |-> n] : rs \in {PlaylistResource, PlaylistKind}, n \in {NameOrder[1]}}

\* Index(key?, value?) as an administrative operation.
AdminIndex(req) ==
    /\ Running
    /\ Serving
    /\ IF req.Key = NilKey THEN ninit < MaxGen /\ initCall.caller = "none" ELSE nfeed < MaxFeed
    /\ LET r == Index(is, req, ngen + 1, FALSE)
       IN  /\ is' = r.is
           /\ initCall' = IF r.init THEN [caller |-> "admin", pc |-> "Init", todo |-> <<>>, err |-> Nil] ELSE initCall
           /\ ngen' = IF r.init THEN ngen + 1 ELSE ngen
           /\ fed' = IF r.init THEN {}
                     ELSE IF r.panic \/ r.err # Nil \/ req.Key = NilKey THEN fed
                     ELSE FedAfter(fed, req.Key, req.Value.ResourceVersion)
           /\ gap' = IF r.init THEN FALSE ELSE gap
           /\ crashed' = r.panic
    /\ nfeed' = IF req.Key = NilKey THEN nfeed ELSE nfeed + 1
    /\ ninit' = IF req.Key = NilKey THEN ninit + 1 ELSE ninit
    /\ UNCHANGED <<getGroupCall, flag, ctor, watch, history>>

\* The administrative absent-key request returns.
AdminReturn ==
    /\ Running
    /\ initCall.caller = "admin"
    /\ initCall.pc = "Return"
    /\ initCall' = NoCall
    /\ UNCHANGED <<getGroupCall, flag, ctor, is, ngen, watch, history, crashed, fed, ninit, nfeed, gap>>

\* A caller issues Search. The handler has a value receiver and writes
\* nothing: the state is left as it is, and the reply is Search(is, req).
ClientSearch ==
    /\ Running
    /\ Serving
    /\ Search(is, "query").err \in {Nil, "IndexNotReadyError"}
    /\ UNCHANGED vars

\* ------------------------------------------------------------- specification
AdminRequests ==
    {EmptyRequest} \cup
    {[Key |-> k, Value |-> [ResourceVersion |-> v, Value |-> MkValue(k.Name, v, TRUE)]] : k \in FeedKeys, v \in 1..MaxVersion}

Next ==
    \/ \E n \in Names, wf \in BOOLEAN, del \in BOOLEAN : Write(n, wf, del)
    \/ \E fail \in BOOLEAN : ProvideResourceDB(fail)
    \/ \E fail \in BOOLEAN : NewBackend(fail)
    \/ \E fail \in BOOLEAN : NewResourceServerPlain(fail)
    \/ \E fail \in BOOLEAN : NewResourceServerIndexed(fail)
    \/ InitWire
    \/ InitReturn
    \/ ServerIndex
    \/ CtorReturn
    \/ \E fail \in BOOLEAN : IndexInitList(fail)
    \/ IndexInitIngest
    \/ IndexInitReady
    \/ WatchSubscribe
    \/ SendLoad
    \/ \E fail \in BOOLEAN : WatchDeliver(fail)
    \/ WatchFail
    \/ \E req \in AdminRequests : AdminIndex(req)
    \/ AdminReturn
    \/ ClientSearch

Spec == Init /\ [][Next]_vars

\* ------------------------------------------------------------- getGroup on its own
\* Atoms of an apiVersion string: the separator and two slash-free pieces.
ApiAtoms == {"g", "v", "/"}

\* The apiVersion strings of at most MaxApiLen atoms.
ApiVersions == UNION {[1..n -> ApiAtoms] : n \in 0..MaxApiLen}

\* A caller holds a Resource with an arbitrary apiVersion; nothing else runs.
InitGetGroup ==
    /\ flag = FALSE
    /\ ctor = [pc |-> "ProvideResourceDB", server |-> Nil, err |-> Nil]
    /\ is = [s |-> Nil, index |-> NilIndex, ws |-> Nil]
    /\ ngen = 0
    /\ watch = [state |-> "none", from |-> 0, cursor |-> 0, err |-> Nil, idx |-> NoSend]
    /\ history = <<>>
    /\ initCall = NoCall
    /\ crashed = FALSE
    /\ fed = {}
    /\ ninit = 0
    /\ nfeed = 0
    /\ gap = FALSE
    /\ \E a \in ApiVersions :
          getGroupCall = [r |-> [NilResource EXCEPT !.ApiVersion = a], pc |-> "call", ret |-> <<>>]

\* getGroup(r) is evaluated and returns.
GetGroupReturn ==
    /\ getGroupCall.pc = "call"
    /\ getGroupCall' = [getGroupCall EXCEPT !.pc = "returned", !.ret = getGroup(getGroupCall.r)]
    /\ UNCHANGED <<flag, ctor, is, ngen, watch, history, initCall, crashed, fed, ninit, nfeed, gap>>

NextGetGroup == GetGroupReturn

SpecGetGroup == InitGetGroup /\ [][NextGetGroup]_vars

\* ------------------------------------------------------------- properties
Docs == is.index.docs

\* The document of the index stored under key k, if any.
DocsOf(k) == {d \in Docs : d.Key = k}

\* The ResourceKey under which the bridge files the event of a row.
BridgeKey(row) == Send(is, EventOf(row), ngen, FALSE).req.Key

\* The last event the bridge has delivered, when there is one.
Delivered == watch.state = "subscribed" /\ watch.cursor > watch.from

\* C1: in indexed mode a Search issued while the index is not Ready
\* (Uninitialized or Building) gets an IndexNotReadyError, never a
\* successful empty SearchResponse.
C1_SearchNotReady ==
    (Running /\ Serving /\ is.index.phase # "Ready") =>
        /\ Search(is, "query").err = "IndexNotReadyError"
        /\ ~(Search(is, "query").err = Nil /\ Search(is, "query").res.Items = {})

\* C2: no gap between scan and live stream: once the index is Ready and the
\* bridge has drained the stream, the latest version of every live object
\* (with a payload that decodes) is in the index: each committed write was
\* either listed by the scan or delivered by the subscription.
C2_NoGap ==
    (/\ is.index.phase = "Ready" /\ initCall.pc # "Scan"
     /\ watch.state = "subscribed" /\ watch.cursor = Len(history))
    => \A n \in Names :
          (Live(n) /\ LatestOf(n).Value.wellFormed) =>
              \E d \in Docs : d.Key.Name = n /\ d.Version >= LatestOf(n).Version

\* C3: after the bridge has delivered an event sequence ending in Deleted
\* for an object, the index holds no document for that object.
C3_DeletedRemoves ==
    (Delivered /\ nfeed = 0 /\ history[watch.cursor].Type = "DELETED") =>
        ~\E d \in Docs : d.Key.Name = history[watch.cursor].Key.Name

\* C4: an ingestion error for one event (a payload that does not decode, an
\* error of the index for that document) does not terminate the bridge: the
\* watch only ever ends because the stream itself failed.
C4_IngestionErrorContained ==
    watch.state = "failed" => watch.err = "StreamError"

\* C5: when the watch feeding the index has terminated with an error, the
\* index is in the observable Degraded state.
C5_WatchFailureDegrades ==
    (watch.state = "failed" /\ is.index # NilIndex) => is.index.phase = "Degraded"

C7_InitBeforeReturn ==
    [][(flag /\ ctor.pc = "WaitIndex" /\ ctor'.pc = "Returned") =>
          /\ ctor'.err = initCall.err
          /\ ninit' = 1
          /\ ctor'.err = Nil => is'.index.phase \in {"Building", "Ready"}]_vars

\* C7 witness: the constructor has returned successfully in indexed mode.
C7_Witness == Serving /\ ninit = 1 /\ is.index.phase = "Ready" /\ ctor.server = "server"

\* C8: an Index request without key replaces the index by a fresh instance
\* whose initialization then runs; a request with key and value leaves the
\* instance in place, starts no initialization and changes at most the one
\* document of that key (administrative requests and those of the bridge).
C8_IndexDispatch ==
    [][/\ ninit' # ninit =>
            /\ ngen' = ngen + 1
            /\ is'.index = NewIndex(is.s, ngen')
            /\ initCall'.pc = "Init"
       /\ nfeed' # nfeed =>
            /\ ngen' = ngen
            /\ initCall' = initCall
            /\ is'.index.gen = is.index.gen
            /\ is'.index.phase = is.index.phase
            /\ is'.index.docs # is.index.docs =>
                  \E p \in fed' \ fed :
                      /\ is'.index.docs \ is.index.docs = {d \in is'.index.docs : d.Key = p.Key /\ d.Version = p.Version}
                      /\ Cardinality(is'.index.docs \ is.index.docs) = 1
                      /\ \A d \in is.index.docs \ is'.index.docs : d.Key = p.Key
       /\ (watch.state = "subscribed" /\ watch'.state = "subscribed" /\ watch'.cursor = watch.cursor + 1) =>
            /\ ngen' = ngen
            /\ initCall' = initCall
            /\ is'.index.gen = is.index.gen
            /\ is'.index.phase = is.index.phase]_vars

\* C8 witness: both kinds of request were served: the index was
\* re-initialized and a keyed request stored its document in the new instance.
C8_Witness ==
    /\ ninit = 2 /\ nfeed = 1 /\ is.index.gen = 2
    /\ watch.state = "spawned"
    /\ \E d \in Docs : d.Key \in FeedKeys /\ d.Key.Resource = PlaylistKind

\* Latest version the index holds per object name.
LatestByName(docs) ==
    {<<d.Key.Name, d.Version>> : d \in {e \in docs : \A f \in docs : f.Key.Name = e.Key.Name => f.Version <= e.Version}}

\* The document set a rebuild of the index from the Backend produces now.
RebuildDocs ==
    {[Key |-> List[i].Key, Version |-> List[i].Version, Value |-> List[i].Value] : i \in {j \in 1..Len(List) : getResource(List[j].Value).err = Nil}}

\* C9: convergence: once every committed row was listed by the scan or
\* applied by the bridge, the index holds, per object, what a rebuild from
\* the Backend would hold.
C9_Convergence ==
    (/\ is.index.phase = "Ready" /\ initCall = NoCall
     /\ watch.state = "subscribed" /\ watch.cursor = Len(history)
     /\ nfeed = 0 /\ ~gap)
    => LatestByName(Docs) = LatestByName(RebuildDocs)

\* C10: per-key ordering: when Send has returned for a delivered row that it
\* applied to the current instance, the index holds that row's version (or a newer one) under the row's key; and,
\* no administrative request having fed that key, every document the index
\* held under the key before was of a version not newer than the row's, and
\* the document it holds afterwards is the row's version and payload.
C10_PerKeyOrder ==
    [][(watch.state = "subscribed" /\ watch'.state = "subscribed" /\ watch'.cursor = watch.cursor + 1
        /\ watch.idx = is.index.gen) =>
          LET row == history[watch'.cursor]
              k == BridgeKey(row)
          IN  /\ \E d \in is'.index.docs : d.Key = k /\ d.Version >= row.Version
              /\ nfeed = 0 =>
                    /\ \A d \in DocsOf(k) : d.Version <= row.Version
                    /\ \E d \in is'.index.docs : d.Key = k /\ d.Version = row.Version /\ d.Value = row.Value]_vars

\* C10 witness: the bridge has delivered two events of the same object, one
\* after the other, and the index holds the later one.
C10_Witness ==
    /\ watch.state = "subscribed" /\ watch.from = 0 /\ watch.cursor = 2
    /\ history[1].Key = history[2].Key
    /\ nfeed = 0
    /\ \E d \in Docs : d.Key.Resource = PlaylistKind /\ d.Version = 2

\* C11: the mode is selected by the flag. With the flag off nothing of the
\* index server is ever touched: no wiring, no watch goroutine, no index, no
\* initialization request; the constructor returns the plain server. With the
\* flag on, a server is returned only with the index server wired, its watch
\* goroutine started and exactly one initialization request issued.
C11_ModeByFlag ==
    [][/\ ~flag => (is' = is /\ is'.index = NilIndex /\ is'.ws = Nil /\ ninit' = 0 /\ ngen' = 0 /\ watch'.state = "none")
       /\ (ctor.pc # "Returned" /\ ctor'.pc = "Returned" /\ ctor'.server # Nil) =>
            IF flag
            THEN is'.s # Nil /\ is'.ws # Nil /\ watch'.state # "none" /\ ninit' = 1 /\ ngen' = 1
            ELSE ctor.pc = "IsEnabledGlobally" /\ ctor'.err = Nil]_vars

\* C11 witness: with the flag off the constructor has returned the plain
\* server while the Backend already holds rows.
C11_Witness ==
    /\ ~flag /\ ctor.pc = "Returned" /\ ctor.server = "server" /\ ctor.err = Nil
    /\ Len(history) = MaxVersion
    /\ is.index = NilIndex /\ watch.state = "none" /\ ninit = 0

\* Whether document d matches query q: a query names an object.
Matches(d, q) == d.Key.Name = q

\* C12: once the index is Ready, Search(q) returns the documents of the
\* index that match q.
C12_SearchReturnsMatches ==
    (Running /\ Serving /\ is.index.phase = "Ready") =>
        \A q \in Names : Search(is, q).res.Items = {d \in Docs : Matches(d, q)}

C14_FedIndexCreated ==
    /\ watch.idx # 0
    /\ ~crashed

\* C15: indexServer.Init returns nil in every interleaving with the
\* goroutine it starts: the constructor always goes on from Init to its
\* initialization request.
C15_InitReturnsNil ==
    [][(ctor.pc = "InitReturn" /\ ctor'.pc # "InitReturn") =>
          (ctor'.pc = "ServerIndex" /\ ctor'.err = Nil)]_vars

\* C16: one watch task per index server: an absent-key request neither
\* starts, restarts nor ends the watch that Init started, and every event
\* that Send has applied went to the instance that is current when Send
\* returns, never to one that was replaced.
C16_OneWatchTask ==
    [][/\ ninit' # ninit => watch' = watch
       /\ watch.state \in {"subscribed", "failed"} => watch'.state # "spawned"
       /\ (watch.state = "subscribed" /\ watch'.state = "subscribed" /\ watch'.cursor = watch.cursor + 1) =>
            watch.idx = is'.index.gen]_vars

\* C17: the constructor returns either a server and a nil error, or no
\* server and an error.
C17_ServerXorError ==
    ctor.pc = "Returned" =>
        \/ ctor.server # Nil /\ ctor.err = Nil
        \/ ctor.server = Nil /\ ctor.err # Nil

\* C18: when a re-initialization (absent-key request on the returned server)
\* has failed, the index server still holds the instance it held before:
\* the Ready one, not the instance the failed request created.
C18_FailedInitKeepsIndex ==
    (initCall.caller = "admin" /\ initCall.pc = "Return" /\ initCall.err # Nil) =>
        (is.index.gen < ngen /\ is.index.phase = "Ready")

\* C19: for every row the bridge has delivered and accepted, the request
\* Send issues carries the row's version and payload unchanged, and its key
\* is the ResourceKey of the row in the Backend, inside the watched scope.
C19_BridgeDocument ==
    watch.state = "subscribed" =>
        \A i \in (watch.from + 1)..watch.cursor :
            LET req == Send(is, EventOf(history[i]), ngen, FALSE).req
            IN  req # EmptyRequest =>
                    /\ req.Value.ResourceVersion = history[i].Version
                    /\ req.Value.Value = history[i].Value
                    /\ req.Key = history[i].Key
                    /\ req.Key.Group = WatchRequestOf.Options.Key.Group
                    /\ req.Key.Resource = WatchRequestOf.Options.Key.Resource

\* C20: getGroup returns the part of apiVersion before its first "/": the
\* whole string when there is no "/", the empty string for the empty
\* string, "g" for "g/v"; the segment list it indexes is never empty.
C20_GetGroup ==
    getGroupCall.pc = "returned" =>
        LET s == getGroupCall.r.ApiVersion
            out == getGroupCall.ret
            cut == {i \in 1..Len(s) : s[i] = "/"}
        IN  /\ Len(Split(s, "/")) > 0
            /\ cut = {} => out = s
            /\ cut # {} => \E i \in cut : (\A j \in cut : i <= j) /\ out = SubSeq(s, 1, i - 1)
            /\ s = <<>> => out = <<>>
            /\ s = <<"g", "/", "v">> => out = <<"g">>

\* C20 witness: getGroup has returned "g" for the apiVersion "g/v".
C20_Witness ==
    /\ getGroupCall.pc = "returned"
    /\ getGroupCall.r.ApiVersion = <<"g", "/", "v">>
    /\ getGroupCall.ret = <<"g">>

\* Scopes (group/resource pairs) a deployment configures the index over: the
\* playlist scope and one more.
ConfiguredScopes ==
    {[Group |-> PlaylistGroup, Resource |-> PlaylistResource],
     [Group |-> <<"dashboard.grafana.app">>, Resource |-> "dashboards"]}

\* A WatchRequest's key pattern covers a scope: its group and resource are
\* the scope's.
Covers(wr, scope) ==
    /\ wr.Options.Key.Group = scope.Group
    /\ wr.Options.Key.Resource = scope.Resource

\* C21: once Init has started the watch, the subscription it requests
\* covers every configured scope, not one fixed group/resource pair.
C21_WatchCoversScopes ==
    watch.state \in {"spawned", "subscribed"} =>
        \A scope \in ConfiguredScopes : Covers(WatchRequestOf, scope)

====
